---- MODULE Spec2Model ----
(***************************************************************************)
(* Alignment refinement and CIGAR normalisation of herro                   *)
(* (src/src/aligners/mod.rs): fix_cigar, the indel left-alignment          *)
(* normaliser, run one loop iteration per step, and align_overlaps, the    *)
(* parallel per-overlap refinement.                                        *)
(*                                                                         *)
(* Rust indices are 0-based and TLA+ sequences 1-based: the model keeps    *)
(* the code's 0-based i, tpos, qpos and l, and reads element k of a slice  *)
(* s as s[k + 1].                                                          *)
(***************************************************************************)
EXTENDS Integers, Sequences, FiniteSets, TLC

\* ------------------------------------------------------------------ bounds

\* Longest target and longest query slice of a generated fix_cigar input.
MaxSpan == 4
\* Most Insertion/Deletion ops in a generated fix_cigar input.
MaxIndels == 2

\* Overlaps in the collection handed to align_overlaps.
NumOverlaps == 2
\* Worker threads of the pool running align_overlaps.
NumWorkers == 2

\* The bases generated inputs are written in (two suffice to build repeats).
FixBases == {"A", "C"}

\* ------------------------------------------------------------ CIGAR op model

Kinds == {"Match", "Mismatch", "Insertion", "Deletion"}

Op(kind, len) == [kind |-> kind, len |-> len]

\* CigarOp::get_length
get_length(op) == op.len

\* CigarOp::with_length: same variant, another run length.
with_length(op, length) == [kind |-> op.kind, len |-> length]

\* matches!(op, CigarOp::Match(_) | CigarOp::Mismatch(_))
IsMatchLike(op) == op.kind \in {"Match", "Mismatch"}

\* Target bases an op consumes (Match, Mismatch, Deletion) and query bases
\* it consumes (Match, Mismatch, Insertion).
TCons(op) == IF op.kind = "Insertion" THEN 0 ELSE op.len
QCons(op) == IF op.kind = "Deletion" THEN 0 ELSE op.len

RECURSIVE TSpan(_)
TSpan(c) == IF c = <<>> THEN 0 ELSE TCons(Head(c)) + TSpan(Tail(c))

RECURSIVE QSpan(_)
QSpan(c) == IF c = <<>> THEN 0 ELSE QCons(Head(c)) + QSpan(Tail(c))

\* -------------------------------------------------------------- fix_cigar

\* ShiftLoop comparing against the base one place too far left.
RECURSIVE ShiftLoopOffByOne(_, _, _, _, _)
ShiftLoopOffByOne(seq, pos, len, prev_len, l) ==
    IF l < prev_len /\ seq[pos - l] = seq[pos + len - l - 1]
    THEN ShiftLoopOffByOne(seq, pos, len, prev_len, l + 1)
    ELSE l

\* The inner while loop of the pass: starting from l, count the bases that
\* agree between seq[pos-1-l] and seq[pos+len-1-l] (0-based), stopping at
\* the first disagreement or at prev_len.
RECURSIVE ShiftLoop(_, _, _, _, _)
ShiftLoop(seq, pos, len, prev_len, l) ==
    IF l < prev_len /\ seq[pos - l] = seq[pos + len - l]
    THEN ShiftLoop(seq, pos, len, prev_len, l + 1)
    ELSE l

\* The guard of the shifting branch: the op at index i is strictly interior
\* and both neighbours are Match/Mismatch.
Interior(c, i) ==
    /\ i > 0
    /\ i < Len(c) - 1
    /\ IsMatchLike(c[i])
    /\ IsMatchLike(c[i + 2])

\* The shift length the pass computes for the interior indel at index i.
ShiftOf(c, tgt, qry, tp, qp, i) ==
    LET op == c[i + 1]
        prev_len == c[i].len
    IN  IF op.kind = "Insertion"
        THEN ShiftLoop(qry, qp, op.len, prev_len, 0)
        ELSE ShiftLoop(tgt, tp, get_length(op), prev_len, 0)

\* Where the pass advances tpos/qpos past an indel: the match on cigar[i]
\* closing the interior branch.
IndelAdvance(op, interior, tp, qp) ==
    IF ~interior THEN <<tp, qp>>
    ELSE IF op.kind = "Insertion" THEN <<tp, qp + op.len>>
    ELSE <<tp + op.len, qp>>

\* One iteration of the pass, for the op at index i: the CIGAR and the
\* position counters it leaves.
PassStep(c, tgt, qry, tp, qp, i) ==
    LET op == c[i + 1] IN
    IF IsMatchLike(op)
    THEN [cigar |-> c, tpos |-> tp + op.len, qpos |-> qp + op.len]
    ELSE IF Interior(c, i)
    THEN LET l    == ShiftOf(c, tgt, qry, tp, qp, i)
             c2   == IF l > 0
                     THEN [c EXCEPT ![i]     = with_length(c[i], c[i].len - l),
                                    ![i + 2] = with_length(c[i + 2], c[i + 2].len + l)]
                     ELSE c
             tp2  == IF l > 0 THEN tp - l ELSE tp
             qp2  == IF l > 0 THEN qp - l ELSE qp
             adv  == IndelAdvance(op, TRUE, tp2, qp2)
         IN  [cigar |-> c2, tpos |-> adv[1], qpos |-> adv[2]]
    ELSE LET adv == IndelAdvance(op, FALSE, tp, qp)
         IN  [cigar |-> c, tpos |-> adv[1], qpos |-> adv[2]]

\* cigar.retain(...): walks the ops in order with is_start, tshift, qshift;
\* acc collects the ops the closure keeps.
RECURSIVE RetainLoop(_, _, _, _, _)
RetainLoop(c, k, is_start, acc, sh) ==
    IF k > Len(c) THEN [cigar |-> acc, tshift |-> sh[1], qshift |-> sh[2]]
    ELSE LET op == c[k] IN
         IF is_start
         THEN IF IsMatchLike(op) /\ op.len > 0
              THEN RetainLoop(c, k + 1, FALSE, Append(acc, op), sh)
              ELSE IF IsMatchLike(op)
              THEN RetainLoop(c, k + 1, TRUE, acc, sh)
              ELSE IF op.kind = "Insertion"
              THEN RetainLoop(c, k + 1, FALSE, acc, <<sh[1], op.len>>)
              ELSE RetainLoop(c, k + 1, FALSE, acc, <<op.len, sh[2]>>)
         ELSE IF get_length(op) > 0
              THEN RetainLoop(c, k + 1, FALSE, Append(acc, op), sh)
              ELSE RetainLoop(c, k + 1, FALSE, acc, sh)

\* Retain with the removed leading indel's length not reported.
RetainNoShift(c) ==
    [cigar |-> RetainLoop(c, 1, TRUE, <<>>, <<0, 0>>).cigar, tshift |-> 0, qshift |-> 0]

Retain(c) == RetainLoop(c, 1, TRUE, <<>>, <<0, 0>>)

\* DiscriminantDiffers comparing the whole ops, lengths included.
OpDiffers(a, b) == a # b

\* The comparison deciding whether op i is written out or merged into op
\* i+1: the two discriminants differ.
DiscriminantDiffers(a, b) == a.kind # b.kind

\* The run-merging loop and the final drain(l..), on the 0-based i and l.
RECURSIVE CoalesceLoop(_, _, _)
CoalesceLoop(c, i, l) ==
    IF i >= Len(c) THEN SubSeq(c, 1, l)
    ELSE IF i = Len(c) - 1 \/ DiscriminantDiffers(c[i + 1], c[i + 2])
    THEN CoalesceLoop([c EXCEPT ![l + 1] = c[i + 1]], i + 1, l + 1)
    ELSE CoalesceLoop(
             [c EXCEPT ![i + 2] =
                 with_length(c[i + 1], get_length(c[i + 1]) + get_length(c[i + 2]))],
             i + 1, l)

Coalesce(c) == CoalesceLoop(c, 0, 0)

\* The whole pass, from index i on.
RECURSIVE PassFrom(_, _, _, _, _, _)
PassFrom(c, tgt, qry, tp, qp, i) ==
    IF i >= Len(c) THEN c
    ELSE LET s == PassStep(c, tgt, qry, tp, qp, i)
         IN  PassFrom(s.cigar, tgt, qry, s.tpos, s.qpos, i + 1)

\* fix_cigar as a function: the CIGAR it leaves and the shifts it returns.
fix_cigar(c, tgt, qry) ==
    LET r == Retain(PassFrom(c, tgt, qry, 0, 0, 0))
    IN  [cigar |-> Coalesce(r.cigar), tshift |-> r.tshift, qshift |-> r.qshift]

\* --------------------------------------------------------------- the inputs

\* The ops that may start a CIGAR whose remaining budget is ts target
\* bases, qs query bases and ni indels; every run length is positive.
FitOps(ts, qs, ni) ==
    {Op(k, n) : k \in {"Match", "Mismatch"}, n \in 1 .. (IF ts < qs THEN ts ELSE qs)}
    \cup (IF ni > 0 THEN {Op("Insertion", n) : n \in 1 .. qs} ELSE {})
    \cup (IF ni > 0 THEN {Op("Deletion", n) : n \in 1 .. ts} ELSE {})

RECURSIVE Cigars(_, _, _)
Cigars(ts, qs, ni) ==
    {<<>>} \cup
    UNION { { <<op>> \o rest :
                rest \in Cigars(ts - TCons(op), qs - QCons(op),
                                IF IsMatchLike(op) THEN ni ELSE ni - 1) }
            : op \in FitOps(ts, qs, ni) }

RECURSIVE InsLen(_)
InsLen(c) ==
    IF c = <<>> THEN 0
    ELSE (IF Head(c).kind = "Insertion" THEN Head(c).len ELSE 0) + InsLen(Tail(c))

OtherBase(b) == CHOOSE x \in FixBases : x # b

\* The query an alignment c of target tgt describes: Match copies the
\* target's bases, Mismatch replaces them, Insertion takes the next bases of
\* ins, Deletion skips target bases.
RECURSIVE BuildQuery(_, _, _)
BuildQuery(c, tgt, ins) ==
    IF c = <<>> THEN <<>>
    ELSE LET op == Head(c) IN
         CASE op.kind = "Match" ->
                SubSeq(tgt, 1, op.len)
                \o BuildQuery(Tail(c), SubSeq(tgt, op.len + 1, Len(tgt)), ins)
           [] op.kind = "Mismatch" ->
                [k \in 1 .. op.len |-> OtherBase(tgt[k])]
                \o BuildQuery(Tail(c), SubSeq(tgt, op.len + 1, Len(tgt)), ins)
           [] op.kind = "Insertion" ->
                SubSeq(ins, 1, op.len)
                \o BuildQuery(Tail(c), tgt, SubSeq(ins, op.len + 1, Len(ins)))
           [] op.kind = "Deletion" ->
                BuildQuery(Tail(c), SubSeq(tgt, op.len + 1, Len(tgt)), ins)

\* The three unit tests of fix_cigar.
Test1 ==
    [cigar  |-> <<Op("Match", 31), Op("Deletion", 4), Op("Match", 3)>>,
     target |-> <<"T","T","T","T","G","T","T","T","T","T","T","T","T","T","T","C","T","T","T","T","T","T","T","T","T","T","T","T","T","T","T","T","T","T","T","G","C","T">>,
     query  |-> <<"T","T","T","T","G","T","T","T","T","T","T","T","T","T","T","C","T","T","T","T","T","T","T","T","T","T","T","T","T","T","T","G","C","T">>]

Test2 ==
    [cigar  |-> <<Op("Match", 18), Op("Insertion", 4), Op("Match", 16)>>,
     target |-> <<"A","G","C","A","A","A","A","A","A","A","A","A","A","A","A","A","A","A","G","A","A","A","A","A","A","A","A","A","A","C","A","A","A","A">>,
     query  |-> <<"A","G","C","A","A","A","A","A","A","A","A","A","A","A","A","A","A","A","A","A","A","A","G","A","A","A","A","A","A","A","A","A","A","C","A","A","A","A">>]

Test3 ==
    [cigar  |-> <<Op("Match", 6), Op("Deletion", 1), Op("Match", 3)>>,
     target |-> <<"C","A","C","C","A","G","G","C","C","A">>,
     query  |-> <<"C","A","C","C","A","G","C","C","A">>]

TestInputs == {Test1, Test2, Test3}

\* ---------------------------------------------------------- align_overlaps

Bases == {"A", "C", "G", "T"}

\* complement: A <-> T, C <-> G.
complement(base) ==
    CASE base = "A" -> "T"
      [] base = "C" -> "G"
      [] base = "G" -> "C"
      [] base = "T" -> "A"

\* reverse_complement: seq.iter().rev().map(complement)
reverse_complement(seq) ==
    [k \in 1 .. Len(seq) |-> complement(seq[Len(seq) + 1 - k])]

\* The Rust slice seq[a..b].
Slice(seq, a, b) == SubSeq(seq, a + 1, b)

\* Option values: None, and Some(v).
None == <<>>
Some(v) == <<v>>

\* The read set (reads[id].seq, ids from 0).
Reads == << <<"A", "C", "C", "G">>, <<"A", "G", "C", "C">> >>
ReadSeq(id) == Reads[id + 1]

\* The query align_overlaps passes to the aligner for overlap o: the read's
\* slice, reverse-complemented on the Reverse strand.
QueryOf(o) ==
    LET query == Slice(ReadSeq(o.qid), o.qstart, o.qend)
    IN  IF o.strand = "Forward" THEN query ELSE reverse_complement(query)

\* The target slice passed to the aligner.
TargetOf(o) == Slice(ReadSeq(o.tid), o.tstart, o.tend)

\* calculate_accuracy: matches over the summed run lengths, kept as the
\* two numbers of the ratio (0 over 0 for the empty CIGAR).
RECURSIVE KindSum(_, _)
KindSum(c, kind) ==
    IF c = <<>> THEN 0
    ELSE (IF Head(c).kind = kind THEN Head(c).len ELSE 0) + KindSum(Tail(c), kind)

calculate_accuracy(c) ==
    [matches |-> KindSum(c, "Match"),
     length  |-> KindSum(c, "Match") + KindSum(c, "Mismatch")
                 + KindSum(c, "Insertion") + KindSum(c, "Deletion")]

\* The trims an aligner answer may carry, as <<tstart, tend, qstart, qend>>:
\* nothing trimmed, or one base trimmed at one end of one sequence.
Trims == {0, 1}
TrimChoices ==
    { x \in Trims \X Trims \X Trims \X Trims : x[1] + x[2] + x[3] + x[4] <= 1 }

\* The trace of an aligned pair: columns compared base by base and
\* run-length encoded, the longer side's remaining bases as one indel.
RECURSIVE Columns(_, _)
Columns(tgt, qry) ==
    IF tgt = <<>> /\ qry = <<>> THEN <<>>
    ELSE IF qry = <<>> THEN <<Op("Deletion", Len(tgt))>>
    ELSE IF tgt = <<>> THEN <<Op("Insertion", Len(qry))>>
    ELSE LET rest == Columns(Tail(tgt), Tail(qry))
             kind == IF Head(tgt) = Head(qry) THEN "Match" ELSE "Mismatch"
         IN  IF rest # <<>> /\ rest[1].kind = kind
             THEN <<Op(kind, rest[1].len + 1)>> \o Tail(rest)
             ELSE <<Op(kind, 1)>> \o rest

\* AlignmentResult::new
AlignmentResult(c, ts, te, qs, qe) ==
    [cigar |-> c, tstart |-> ts, tend |-> te, qstart |-> qs, qend |-> qe]

\* The answers WFAAligner::align may give for (query, target): an aligned
\* interior of both, the trace over it and the four trims around it.
AlignAnswers(query, target) ==
    { AlignmentResult(
          Columns(Slice(target, ts, Len(target) - te), Slice(query, qs, Len(query) - qe)),
          ts, te, qs, qe) :
        <<ts, te, qs, qe>> \in
            { x \in TrimChoices :
                x[1] + x[2] <= Len(target) /\ x[3] + x[4] <= Len(query) } }

\* o.cigar = Some(align_result.cigar)
StoreCigar(o, r) == [o EXCEPT !.cigar = Some(r.cigar)]

\* o.tstart += align_result.tstart; o.tend -= align_result.tend
TrimTarget(o, r) ==
    [o EXCEPT !.tstart = o.tstart + r.tstart, !.tend = o.tend - r.tend]

\* TrimQuery with the strand ignored: every overlap trimmed as Forward.
TrimQueryForwardOnly(o, r) ==
    [o EXCEPT !.qstart = o.qstart + r.qstart, !.qend = o.qend - r.qend]

\* match o.strand: Forward trims qstart by qstart and qend by qend, Reverse
\* trims qstart by qend and qend by qstart.
TrimQuery(o, r) ==
    IF o.strand = "Forward"
    THEN [o EXCEPT !.qstart = o.qstart + r.qstart, !.qend = o.qend - r.qend]
    ELSE [o EXCEPT !.qstart = o.qstart + r.qend, !.qend = o.qend - r.qstart]

\* o.accuracy = Some(calculate_accuracy(o.cigar.as_ref().unwrap()))
SetAccuracy(o) == [o EXCEPT !.accuracy = Some(calculate_accuracy(o.cigar[1]))]

\* The closure of for_each_with on one overlap, given the aligner's answer.
Refine(o, r) == SetAccuracy(TrimQuery(TrimTarget(StoreCigar(o, r), r), r))

\* The overlaps the loader may hand over at index k: the query read is k's
\* parity and the target read the other one, on either strand, the query
\* range leaving out the read's first base and the target range its last.
OverlapInputs(k) ==
    { [qid |-> k % 2, tid |-> 1 - (k % 2), strand |-> s,
       qstart |-> 1, qend |-> Len(ReadSeq(k % 2)),
       tstart |-> 0, tend |-> Len(ReadSeq(1 - (k % 2))) - 1,
       cigar |-> None, accuracy |-> None] :
        s \in {"Forward", "Reverse"} }

Workers == 1 .. NumWorkers

\* ------------------------------------------------------------------ state

VARIABLES
    input,    \* the arguments fix_cigar was called with: cigar, target, query
    cigar,    \* the CIGAR being normalised in place
    pc,       \* "pass", "retain", "coalesce", "done", "again"; "idle": no call
    i,        \* the pass's loop index
    tpos,     \* the pass's target position counter
    qpos,     \* the pass's query position counter
    tshift,   \* the target shift fix_cigar returns
    qshift,   \* the query shift fix_cigar returns
    second,   \* the outcome of calling fix_cigar on its own output
    overlaps, \* the overlap collection align_overlaps mutates in place
    orig,     \* the collection as it was handed to align_overlaps
    queue,    \* indices of the overlaps no task has been started for
    worker,   \* per worker: the index of the overlap its task holds, or 0
    stage,    \* per overlap: how far its task has come
    result,   \* per overlap: what the aligner answered its task
    aligner,  \* per worker: whether its thread-local aligner exists
    writers,  \* per overlap: the workers that have written to it
    call      \* align_overlaps itself: "running", "returned", "panicked"

fixVars == <<input, cigar, pc, i, tpos, qpos, tshift, qshift, second>>

alignVars == <<overlaps, orig, queue, worker, stage, result, aligner, writers, call>>

vars == <<fixVars, alignVars>>

NoResult == [cigar |-> <<>>, tshift |-> 0, qshift |-> 0]

\* No call of fix_cigar is in progress.
FixIdle ==
    /\ input = [cigar |-> <<>>, target |-> <<>>, query |-> <<>>]
    /\ cigar = <<>>
    /\ pc = "idle"
    /\ i = 0
    /\ tpos = 0
    /\ qpos = 0
    /\ tshift = 0
    /\ qshift = 0
    /\ second = NoResult

\* No call of align_overlaps is in progress.
AlignIdle ==
    /\ overlaps = <<>>
    /\ orig = <<>>
    /\ queue = {}
    /\ worker = [w \in Workers |-> 0]
    /\ stage = <<>>
    /\ result = <<>>
    /\ aligner = [w \in Workers |-> FALSE]
    /\ writers = <<>>
    /\ call = "idle"

InitFix ==
    /\ \/ \E c \in Cigars(MaxSpan, MaxSpan, MaxIndels) :
            \E tgt \in [1 .. TSpan(c) -> FixBases], ins \in [1 .. InsLen(c) -> FixBases] :
                input = [cigar |-> c, target |-> tgt, query |-> BuildQuery(c, tgt, ins)]
       \/ input \in TestInputs
    /\ cigar = input.cigar
    /\ pc = "pass"
    /\ i = 0
    /\ tpos = 0
    /\ qpos = 0
    /\ tshift = 0
    /\ qshift = 0
    /\ second = NoResult
    /\ AlignIdle

\* One iteration of the pass: for i in 0..cigar.len().
Pass ==
    /\ pc = "pass"
    /\ i < Len(cigar)
    /\ LET s == PassStep(cigar, input.target, input.query, tpos, qpos, i)
       IN  /\ cigar' = s.cigar
           /\ tpos' = s.tpos
           /\ qpos' = s.qpos
    /\ i' = i + 1
    /\ UNCHANGED <<input, pc, tshift, qshift, second, alignVars>>

\* The pass's loop ends.
PassEnd ==
    /\ pc = "pass"
    /\ i >= Len(cigar)
    /\ pc' = "retain"
    /\ UNCHANGED <<input, cigar, i, tpos, qpos, tshift, qshift, second, alignVars>>

\* cigar.retain(...)
RetainStep ==
    /\ pc = "retain"
    /\ LET r == Retain(cigar)
       IN  /\ cigar' = r.cigar
           /\ tshift' = r.tshift
           /\ qshift' = r.qshift
    /\ pc' = "coalesce"
    /\ UNCHANGED <<input, i, tpos, qpos, second, alignVars>>

\* The merging loop, cigar.drain(l..) and the return.
CoalesceStep ==
    /\ pc = "coalesce"
    /\ cigar' = Coalesce(cigar)
    /\ pc' = "done"
    /\ UNCHANGED <<input, i, tpos, qpos, tshift, qshift, second, alignVars>>

\* The sequences a caller passes on after adding the returned shifts to the
\* start coordinates.
Advanced(seq, shift) == SubSeq(seq, shift + 1, Len(seq))

\* The caller applies fix_cigar again to the CIGAR it got back.
Again ==
    /\ pc = "done"
    /\ second' = fix_cigar(cigar, Advanced(input.target, tshift),
                           Advanced(input.query, qshift))
    /\ pc' = "again"
    /\ UNCHANGED <<input, cigar, i, tpos, qpos, tshift, qshift, alignVars>>

NextFix == Pass \/ PassEnd \/ RetainStep \/ CoalesceStep \/ Again

SpecFix == InitFix /\ [][NextFix]_vars

\* align_overlaps is called on a collection of NumOverlaps overlaps.
InitAlign ==
    /\ FixIdle
    /\ orig \in { f \in [1 .. NumOverlaps ->
                          UNION {OverlapInputs(k) : k \in 1 .. NumOverlaps}] :
                    \A k \in 1 .. NumOverlaps : f[k] \in OverlapInputs(k) }
    /\ overlaps = orig
    /\ queue = 1 .. NumOverlaps
    /\ worker = [w \in Workers |-> 0]
    /\ stage = [k \in 1 .. NumOverlaps |-> "queued"]
    /\ result = [k \in 1 .. NumOverlaps |-> None]
    /\ aligner = [w \in Workers |-> FALSE]
    /\ writers = [k \in 1 .. NumOverlaps |-> {}]
    /\ call = "running"

\* Some task has panicked: the aligner failed and the closure unwrapped it.
Panicked == \E k \in DOMAIN stage : stage[k] = "failed"

\* Take with the overlap left in the queue, for another task to take too.
TakeShared(w, k) ==
    /\ call = "running"
    /\ worker[w] = 0
    /\ k \in queue
    /\ worker' = [worker EXCEPT ![w] = k]
    /\ stage' = [stage EXCEPT ![k] = "taken"]
    /\ aligner' = [aligner EXCEPT ![w] = TRUE]
    /\ UNCHANGED <<overlaps, orig, queue, result, writers, call, fixVars>>

\* par_iter_mut hands overlap k, to no other task, to the task worker w
\* starts; the closure first fetches the worker's aligner, creating it on
\* first use.
Take(w, k) ==
    /\ call = "running"
    /\ worker[w] = 0
    /\ k \in queue
    /\ queue' = queue \ {k}
    /\ worker' = [worker EXCEPT ![w] = k]
    /\ stage' = [stage EXCEPT ![k] = "taken"]
    /\ aligner' = [aligner EXCEPT ![w] = TRUE]
    /\ UNCHANGED <<overlaps, orig, result, writers, call, fixVars>>

\* Overlap j's task put the same question to the aligner as overlap k's
\* task is about to.
SameQuestion(j, k) ==
    /\ j # k
    /\ QueryOf(orig[j]) = QueryOf(overlaps[k])
    /\ TargetOf(orig[j]) = TargetOf(overlaps[k])

\* The task slices query and target and the aligner answers with a result;
\* the aligner is a function of its input, so a pair it has answered before
\* gets the same answer.
AlignOk(w) ==
    /\ worker[w] # 0
    /\ LET k == worker[w] IN
       /\ stage[k] = "taken"
       /\ \E r \in AlignAnswers(QueryOf(overlaps[k]), TargetOf(overlaps[k])) :
            /\ \A j \in DOMAIN result :
                 SameQuestion(j, k) =>
                    /\ stage[j] # "failed"
                    /\ result[j] # None => result[j] = Some(r)
            /\ result' = [result EXCEPT ![k] = Some(r)]
       /\ stage' = [stage EXCEPT ![k] = "aligned"]
    /\ UNCHANGED <<overlaps, orig, queue, worker, aligner, writers, call, fixVars>>

\* The aligner answers with an error and unwrap() panics: the task ends.
AlignErr(w) ==
    /\ worker[w] # 0
    /\ LET k == worker[w] IN
       /\ stage[k] = "taken"
       /\ \A j \in DOMAIN result : SameQuestion(j, k) => result[j] = None
       /\ stage' = [stage EXCEPT ![k] = "failed"]
    /\ worker' = [worker EXCEPT ![w] = 0]
    /\ UNCHANGED <<overlaps, orig, queue, result, aligner, writers, call, fixVars>>

\* o.cigar = Some(align_result.cigar)
WriteCigar(w) ==
    /\ worker[w] # 0
    /\ LET k == worker[w] IN
       /\ stage[k] = "aligned"
       /\ overlaps' = [overlaps EXCEPT ![k] = StoreCigar(overlaps[k], result[k][1])]
       /\ stage' = [stage EXCEPT ![k] = "stored"]
       /\ writers' = [writers EXCEPT ![k] = writers[k] \cup {w}]
    /\ UNCHANGED <<orig, queue, worker, result, aligner, call, fixVars>>

\* The target and query trims.
WriteTrims(w) ==
    /\ worker[w] # 0
    /\ LET k == worker[w] IN
       /\ stage[k] = "stored"
       /\ overlaps' = [overlaps EXCEPT
                          ![k] = TrimQuery(TrimTarget(overlaps[k], result[k][1]),
                                           result[k][1])]
       /\ stage' = [stage EXCEPT ![k] = "trimmed"]
       /\ writers' = [writers EXCEPT ![k] = writers[k] \cup {w}]
    /\ UNCHANGED <<orig, queue, worker, result, aligner, call, fixVars>>

\* o.accuracy = Some(...): the closure returns and the worker is free again.
WriteAccuracy(w) ==
    /\ worker[w] # 0
    /\ LET k == worker[w] IN
       /\ stage[k] = "trimmed"
       /\ overlaps' = [overlaps EXCEPT ![k] = SetAccuracy(overlaps[k])]
       /\ stage' = [stage EXCEPT ![k] = "done"]
       /\ writers' = [writers EXCEPT ![k] = writers[k] \cup {w}]
    /\ worker' = [worker EXCEPT ![w] = 0]
    /\ UNCHANGED <<orig, queue, result, aligner, call, fixVars>>

\* After a panic, an overlap queued behind the panicking one in the same
\* sequential chunk is never started.
Abandon(k) ==
    /\ call = "running"
    /\ Panicked
    /\ k \in queue
    /\ queue' = queue \ {k}
    /\ stage' = [stage EXCEPT ![k] = "skipped"]
    /\ UNCHANGED <<overlaps, orig, worker, result, aligner, writers, call, fixVars>>

\* Every task is over.
Quiescent == queue = {} /\ \A w \in Workers : worker[w] = 0

\* for_each_with returns: every closure returned.
Return ==
    /\ call = "running"
    /\ Quiescent
    /\ ~Panicked
    /\ call' = "returned"
    /\ UNCHANGED <<overlaps, orig, queue, worker, stage, result, aligner, writers, fixVars>>

\* for_each_with resumes the panic of a task in its caller.
Unwind ==
    /\ call = "running"
    /\ Quiescent
    /\ Panicked
    /\ call' = "panicked"
    /\ UNCHANGED <<overlaps, orig, queue, worker, stage, result, aligner, writers, fixVars>>

NextAlign ==
    \/ \E w \in Workers, k \in 1 .. NumOverlaps : Take(w, k)
    \/ \E w \in Workers : AlignOk(w)
    \/ \E w \in Workers : AlignErr(w)
    \/ \E w \in Workers : WriteCigar(w)
    \/ \E w \in Workers : WriteTrims(w)
    \/ \E w \in Workers : WriteAccuracy(w)
    \/ \E k \in 1 .. NumOverlaps : Abandon(k)
    \/ Return
    \/ Unwind

SpecAlign == InitAlign /\ [][NextAlign]_vars

\* ------------------------------------------------------- fix_cigar claims

\* The part of the CIGAR before index k (0-based, exclusive).
Before(c, k) == SubSeq(c, 1, k)

\* fix_cigar has returned.
Returned == pc \in {"done", "again"}

\* The sequences as the caller sees them after adding the returned shifts.
TargetAfter == Advanced(input.target, tshift)
QueryAfter == Advanced(input.query, qshift)

\* C1: applying fix_cigar to its own output, with target and query advanced
\* by the returned shifts, leaves the CIGAR as the first application
\* produced it and returns shifts (0, 0).
CE_C1_Idempotent ==
    pc = "again" => second = [cigar |-> cigar, tshift |-> 0, qshift |-> 0]

\* C2: the CIGAR fix_cigar leaves has no two adjacent ops of the same kind
\* and every op has length > 0.
Thm_C2_RunsCoalesced ==
    Returned =>
        /\ \A k \in 1 .. Len(cigar) : cigar[k].len > 0
        /\ \A k \in 1 .. Len(cigar) - 1 : cigar[k].kind # cigar[k + 1].kind

\* C2's case: the pass left a zero-length run, retain left two adjacent ops
\* of one kind, and fix_cigar returned a non-empty CIGAR.
Wit_C2_ZeroRunAndMerge ==
    /\ pc = "done"
    /\ cigar # <<>>
    /\ LET p == PassFrom(input.cigar, input.target, input.query, 0, 0, 0)
           r == Retain(p).cigar
       IN  /\ \E k \in 1 .. Len(p) : p[k].len = 0
           /\ \E k \in 1 .. Len(r) - 1 : r[k].kind = r[k + 1].kind

\* The input is [Match(a), Indel(d), Match(b)] with a, b, d > 0.
SingleIndel ==
    /\ Len(input.cigar) = 3
    /\ input.cigar[1].kind = "Match" /\ input.cigar[1].len > 0
    /\ input.cigar[2].kind \in {"Insertion", "Deletion"} /\ input.cigar[2].len > 0
    /\ input.cigar[3].kind = "Match" /\ input.cigar[3].len > 0

\* The sequence a single indel is compared on.
IndelSeq == IF input.cigar[2].kind = "Deletion" THEN input.target ELSE input.query

\* The largest l <= a with seq[a-1-k] = seq[a+d-1-k] (0-based) for all k < l.
MaxShift ==
    LET a == input.cigar[1].len
        d == input.cigar[2].len
        ok == {l \in 0 .. a : \A k \in 0 .. l - 1 : IndelSeq[a - k] = IndelSeq[a + d - k]}
    IN  CHOOSE l \in ok : \A m \in ok : m <= l

\* C3: for [Match(a), Indel(d), Match(b)] and the maximal shift l < a,
\* fix_cigar leaves exactly [Match(a-l), Indel(d), Match(b+l)] and returns
\* shifts (0, 0); the three unit tests give the results they assert.
Thm_C3_SingleIndel ==
    /\ (Returned /\ SingleIndel /\ MaxShift < input.cigar[1].len) =>
          /\ cigar = <<Op("Match", input.cigar[1].len - MaxShift),
                       input.cigar[2],
                       Op("Match", input.cigar[3].len + MaxShift)>>
          /\ tshift = 0
          /\ qshift = 0
    /\ (Returned /\ input = Test1) =>
          cigar = <<Op("Match", 16), Op("Deletion", 4), Op("Match", 18)>>
    /\ (Returned /\ input = Test2) =>
          cigar = <<Op("Match", 3), Op("Insertion", 4), Op("Match", 31)>>
    /\ (Returned /\ input = Test3) =>
          cigar = <<Op("Match", 5), Op("Deletion", 1), Op("Match", 4)>>

\* C3's case: a single indel was moved left by part of the preceding run.
Wit_C3_PartialShift ==
    /\ pc = "done"
    /\ SingleIndel
    /\ MaxShift > 0
    /\ MaxShift < input.cigar[1].len
    /\ cigar # input.cigar

\* An indel at 1-based place k of the returned CIGAR, between two
\* Match/Mismatch runs, cannot move left by one base.
Leftmost(k) ==
    LET tp == TSpan(Before(cigar, k - 1))
        qp == QSpan(Before(cigar, k - 1))
        len == cigar[k].len
    IN  IF cigar[k].kind = "Insertion"
        THEN QueryAfter[qp] # QueryAfter[qp + len]
        ELSE TargetAfter[tp] # TargetAfter[tp + len]

\* C4: after fix_cigar, every indel whose two neighbours are both
\* Match/Mismatch is at its leftmost equivalent position.
CE_C4_LeftmostPlacement ==
    pc = "done" =>
        \A k \in 2 .. Len(cigar) - 1 :
            (~IsMatchLike(cigar[k]) /\ IsMatchLike(cigar[k - 1]) /\ IsMatchLike(cigar[k + 1]))
                => Leftmost(k)

\* C7: the CIGAR fix_cigar leaves, if non-empty, begins with a Match or
\* Mismatch op.
CE_C7_NoLeadingIndel ==
    (Returned /\ cigar # <<>>) => IsMatchLike(cigar[1])

\* C9: when the pass examines the op at index i, tpos and qpos are the
\* target and query bases consumed by the ops before index i.
CE_C9_CountersCumulative ==
    (pc = "pass" /\ i < Len(cigar)) =>
        /\ tpos = TSpan(Before(cigar, i))
        /\ qpos = QSpan(Before(cigar, i))

\* C10: the target span of the output plus targetShift is the target span
\* of the input, and the query span plus queryShift the input's query span.
Thm_C10_SpanConserved ==
    Returned =>
        /\ TSpan(cigar) + tshift = TSpan(input.cigar)
        /\ QSpan(cigar) + qshift = QSpan(input.cigar)

\* C10's case: runs were shifted, a leading indel was removed into a shift
\* and runs were merged.
Wit_C10_ShiftReturned ==
    /\ pc = "done"
    /\ tshift + qshift > 0
    /\ IsMatchLike(input.cigar[1])
    /\ Len(cigar) + 2 <= Len(input.cigar)

\* --------------------------------------------------- align_overlaps claims

\* Overlap k has been refined: CIGAR and accuracy populated, coordinates
\* trimmed by its aligner answer.
Refined(k) ==
    /\ stage[k] = "done"
    /\ result[k] # None
    /\ overlaps[k].cigar # None
    /\ overlaps[k].accuracy # None
    /\ overlaps[k] = Refine(orig[k], result[k][1])

\* C5: when the aligner fails for one overlap, every other overlap is still
\* refined and the call of align_overlaps is not aborted.
CE_C5_FailureIsolated ==
    (call \in {"returned", "panicked"} /\ Panicked) =>
        /\ call = "returned"
        /\ \A k \in DOMAIN stage : stage[k] # "failed" => Refined(k)

\* The collection left by refining the overlaps one after the other in
\* index order, from index k on, with the aligner answering as it did.
RECURSIVE Sequential(_, _)
Sequential(os, k) ==
    IF k > Len(os) THEN os
    ELSE Sequential([os EXCEPT ![k] = Refine(os[k], result[k][1])], k + 1)

\* C6: whatever the assignment of tasks to workers and the interleaving of
\* their steps, no two tasks hold or write the same overlap, and when the
\* call returns every overlap was written by exactly one task and the
\* collection is the one sequential processing in index order produces.
Thm_C6_InterleavingIndependent ==
    /\ \A k \in DOMAIN writers : Cardinality(writers[k]) <= 1
    /\ \A w1, w2 \in Workers : (w1 # w2 /\ worker[w1] # 0) => worker[w1] # worker[w2]
    /\ call = "returned" =>
          /\ \A k \in DOMAIN writers : Cardinality(writers[k]) = 1
          /\ overlaps = Sequential(orig, 1)

\* C6's case: the call returned after two workers refined one overlap
\* each, the first one's target start moved by a trim.
Wit_C6_TwoWorkersReturned ==
    /\ call = "returned"
    /\ writers[1] # writers[2]
    /\ overlaps[1].tstart # orig[1].tstart
    /\ overlaps[2].qend # orig[2].qend

\* The part of the original-orientation read that overlap k's final query
\* range covers, in the orientation the aligner was given.
FinalQueryAsGiven(k) ==
    LET o == overlaps[k]
        part == Slice(ReadSeq(o.qid), o.qstart, o.qend)
    IN  IF o.strand = "Forward" THEN part ELSE reverse_complement(part)

\* The query the aligner was given for overlap k, without its first
\* result.qstart and last result.qend bases.
AlignedQuery(k) ==
    LET given == QueryOf(orig[k])
        r == result[k][1]
    IN  Slice(given, r.qstart, Len(given) - r.qend)

\* C8: target coordinates become tstart + result.tstart and tend -
\* result.tend; query coordinates are trimmed by (qstart, qend) on Forward
\* and by (qend, qstart) on Reverse, so that on both strands the final query
\* range is the region the aligner aligned.
Thm_C8_StrandAwareTrim ==
    \A k \in DOMAIN stage :
        stage[k] \in {"trimmed", "done"} =>
            LET o == overlaps[k]
                o0 == orig[k]
                r == result[k][1]
            IN  /\ o.tstart = o0.tstart + r.tstart
                /\ o.tend = o0.tend - r.tend
                /\ o0.strand = "Forward" =>
                      o.qstart = o0.qstart + r.qstart /\ o.qend = o0.qend - r.qend
                /\ o0.strand = "Reverse" =>
                      o.qstart = o0.qstart + r.qend /\ o.qend = o0.qend - r.qstart
                /\ FinalQueryAsGiven(k) = AlignedQuery(k)

\* C8's case: a Reverse overlap was refined with a base trimmed from the
\* start of the reverse-complemented query.
Wit_C8_ReverseTrimmed ==
    \E k \in DOMAIN stage :
        /\ stage[k] = "done"
        /\ orig[k].strand = "Reverse"
        /\ result[k][1].qstart = 1
        /\ overlaps[k].qend = orig[k].qend - 1

====
